---- MODULE Spec2Model ----
(***************************************************************************)
(* Person management API (FastAPI + SQLAlchemy on SQLite).                 *)
(*                                                                         *)
(* The store is the single table "people".  Every HTTP request runs in a   *)
(* worker thread with its own SQLAlchemy session; a handler is therefore a *)
(* sequence of SQL statements, each atomic against the store, interleaved  *)
(* with the statements of the other requests in flight.  One action of the *)
(* model is one such statement together with the handler code around it.   *)
(***************************************************************************)
EXTENDS Integers, Sequences, FiniteSets, TLC

VARIABLES
    people,   \* the rows of table "people", in rowid (insertion) order
    nextId,   \* stands for uuid4(): the next primary key that was never issued
    now,      \* CURRENT_TIMESTAMP of the store
    req       \* per request slot: the request in flight and its local state

vars == <<people, nextId, now, req>>

----------------------------------------------------------------------------
(* Bounds of the model *)

MaxId == 2        \* number of primary keys that are ever generated
MaxClock == 1     \* the store's clock runs over 0..MaxClock

Clients == {"r1", "r2"}    \* request slots: requests that may be in flight together

None == "<None>"           \* Python's None (an absent field of a PersonUpdate)

LoginIds == {"", "jdoe", "jsmith"}
PersonIds == {"", "12345"}
FirstNames == {"", "John"}
MiddleNames == {"", "Q"}
LastNames == {"", "Doe"}

Ids == 1..MaxId            \* path parameters: the keys that are ever issued

----------------------------------------------------------------------------
(* Schemas *)

StrFields == {"login_id", "person_id", "name_first", "name_middle", "name_last"}

\* schemas.PersonCreate: five strings, "" when omitted
PersonCreate(l, p, f, m, n) ==
    [login_id |-> l, person_id |-> p, name_first |-> f, name_middle |-> m, name_last |-> n]

\* schemas.PersonUpdate: five optional strings, None when omitted
PersonUpdate(l, p, f, m, n) ==
    [login_id |-> l, person_id |-> p, name_first |-> f, name_middle |-> m, name_last |-> n]

NoData == PersonUpdate(None, None, None, None, None)

\* person_update.model_dump(exclude_none=True): the keys that are present
model_dump_keysMutFalsy(patch) == {f \in StrFields : patch[f] \notin {None, ""}}
model_dump_keys(patch) == {f \in StrFields : patch[f] # None}

----------------------------------------------------------------------------
(* The table and its queries *)

\* models.Person: a row built from a PersonCreate, with the column defaults
NewRowMutFixedId(id, data, ts) ==
    [id |-> 1,
     login_id |-> data.login_id, person_id |-> data.person_id,
     name_first |-> data.name_first, name_middle |-> data.name_middle,
     name_last |-> data.name_last,
     created_at |-> ts, updated_at |-> ts]
NewRowMutNoMiddle(id, data, ts) ==
    [id |-> id,
     login_id |-> data.login_id, person_id |-> data.person_id,
     name_first |-> data.name_first, name_middle |-> "",
     name_last |-> data.name_last,
     created_at |-> ts, updated_at |-> ts]
NewRow(id, data, ts) ==
    [id |-> id,
     login_id |-> data.login_id, person_id |-> data.person_id,
     name_first |-> data.name_first, name_middle |-> data.name_middle,
     name_last |-> data.name_last,
     created_at |-> ts, updated_at |-> ts]

\* query(Person).filter(...).first(): the first matching row, as a 0/1 sequence
First(rows) == IF rows = <<>> THEN <<>> ELSE <<Head(rows)>>

HasIdMutAny(r, id) == TRUE
HasId(r, id) == r.id = id
get_person_by_id(tbl, id) ==
    LET Match(r) == HasId(r, id) IN First(SelectSeq(tbl, Match))

get_person_by_mayo_login_idMutWrongColumn(tbl, login) ==
    LET Match(r) == r.person_id = login IN First(SelectSeq(tbl, Match))
get_person_by_mayo_login_id(tbl, login) ==
    LET Match(r) == r.login_id = login IN First(SelectSeq(tbl, Match))

get_person_by_mayo_person_id(tbl, pid) ==
    LET Match(r) == r.person_id = pid IN First(SelectSeq(tbl, Match))

\* The UNIQUE indexes on login_id and person_id and the primary key: would row r
\* collide with a row of tbl other than the row of key `self`?  The indexes
\* compare plain values: the empty string is a value like any other.
UniqueViolationMutNoCheck(tbl, r, self) == FALSE
UniqueViolationMutPkOnly(tbl, r, self) ==
    \E i \in 1..Len(tbl) : tbl[i].id # self /\ tbl[i].id = r.id
UniqueViolation(tbl, r, self) ==
    \E i \in 1..Len(tbl) :
        /\ tbl[i].id # self
        /\ \/ tbl[i].login_id = r.login_id
           \/ tbl[i].person_id = r.person_id
           \/ tbl[i].id = r.id

\* DELETE FROM people WHERE id = :id
DeleteRowMutKeep(tbl, id) == tbl
DeleteRow(tbl, id) == LET Keep(r) == r.id # id IN SelectSeq(tbl, Keep)

\* UPDATE people SET ... WHERE id = :id
ReplaceRowMutNoWhere(tbl, r) == [i \in 1..Len(tbl) |-> [r EXCEPT !.id = tbl[i].id]]
ReplaceRow(tbl, r) == [i \in 1..Len(tbl) |-> IF tbl[i].id = r.id THEN r ELSE tbl[i]]

----------------------------------------------------------------------------
(* Request slots *)

\* skip, limit and name are the query parameters of GET /people/; lookups are
\* the store queries issued by a list, count or exists call; result is the value
\* returned from PersonService.person_exists_by_mayo_ids and count the value
\* returned from PersonService.count_people; rolled_back tells that the
\* service has called db.rollback(); session is the state of the request's
\* store session and closes the number of times it was closed
Idle ==
    [op |-> "none", pc |-> "idle", id |-> 0, data |-> NoData,
     session |-> "none", closes |-> 0,
     skip |-> 0, limit |-> 0, name |-> None, lookups |-> <<>>, result |-> FALSE,
     count |-> 0,
     dirty |-> {}, rolled_back |-> FALSE,
     status |-> 0, detail |-> "", body |-> <<>>]

\* the request starts: get_db_session opens the session (db = SessionLocal())
\* and yields it to the handler
Begin(op, pc, id, data) ==
    [op |-> op, pc |-> pc, id |-> id, data |-> data,
     session |-> "open", closes |-> 0,
     skip |-> 0, limit |-> 0, name |-> None, lookups |-> <<>>, result |-> FALSE,
     count |-> 0,
     dirty |-> {}, rolled_back |-> FALSE,
     status |-> 0, detail |-> "", body |-> <<>>]

\* get_db_session, `finally: db.close()`: runs however the handler ends
CloseSessionMutNoFinally(r) ==
    IF r.status >= 400 THEN r
    ELSE [r EXCEPT !.session = "closed", !.closes = @ + 1]
CloseSession(r) == [r EXCEPT !.session = "closed", !.closes = @ + 1]

\* the handler returns or raises: the response of the request, and the end of
\* get_db_session
Respond(r, status, detail, body) ==
    CloseSession([r EXCEPT !.pc = "done", !.status = status,
                           !.detail = detail, !.body = body])

\* raise HTTPException(404, "Person with ... not found")
NotFound(r, what) == Respond(r, 404, what, <<>>)

\* raise HTTPException(409, "Person with <field> '...' already exists")
Conflict(r, field) == Respond(r, 409, field, <<>>)

\* create: IntegrityError -> rollback -> ValueError("Person creation failed: ...")
\* -> HTTPException(400, str(e))
CreateFailedMutConflict(r) == Respond(r, 409, "login_id", <<>>)
CreateFailedMutNoRollback(r) == Respond(r, 400, "Person creation failed", <<>>)
CreateFailed(r) ==
    [Respond(r, 400, "Person creation failed", <<>>) EXCEPT !.rolled_back = TRUE]

\* update: IntegrityError -> rollback -> ValueError("Person update failed: ...")
\* -> HTTPException(400, str(e))
UpdateFailedMutNoRollback(r) == Respond(r, 400, "Person update failed", <<>>)
UpdateFailed(r) ==
    [Respond(r, 400, "Person update failed", <<>>) EXCEPT !.rolled_back = TRUE]

\* an exception no handler catches: 500 Internal Server Error
ServerError(r, what) == Respond(r, 500, what, <<>>)

\* the update pre-checks: `existing and existing.id != person_id`
ConflictsWithOtherMutSelf(found, id) == found # <<>>
ConflictsWithOther(found, id) == found # <<>> /\ found[1].id # id

\* the create pre-checks: `value and service.get_person_by_...(value)`
AlreadyExistsMutNever(value, found) == FALSE
AlreadyExists(value, found) == value # "" /\ found # <<>>

Goto(r, pc) == [r EXCEPT !.pc = pc]

Init ==
    /\ people = <<>>
    /\ nextId = 1
    /\ now = 0
    /\ req = [c \in Clients |-> Idle]

\* the store's clock advances
Tick ==
    /\ now < MaxClock
    /\ now' = now + 1
    /\ UNCHANGED <<people, nextId, req>>

\* the response has been sent; the slot takes the next request
Finish(c) ==
    /\ req[c].pc = "done"
    /\ req' = [req EXCEPT ![c] = Idle]
    /\ UNCHANGED <<people, nextId, now>>

----------------------------------------------------------------------------
(* POST /people/ *)

\* routers.create_person, first pre-check
CreateCheckLogin(c, data) ==
    /\ req[c].pc = "idle"
    /\ LET r == Begin("create", "c_person", 0, data) IN
       IF AlreadyExists(data.login_id, get_person_by_mayo_login_id(people, data.login_id))
       THEN req' = [req EXCEPT ![c] = Conflict(r, "login_id")]
       ELSE req' = [req EXCEPT ![c] = r]
    /\ UNCHANGED <<people, nextId, now>>

\* routers.create_person, second pre-check
CreateCheckPerson(c) ==
    /\ req[c].pc = "c_person"
    /\ LET data == req[c].data IN
       IF AlreadyExists(data.person_id, get_person_by_mayo_person_id(people, data.person_id))
       THEN req' = [req EXCEPT ![c] = Conflict(req[c], "person_id")]
       ELSE req' = [req EXCEPT ![c] = Goto(req[c], "c_insert")]
    /\ UNCHANGED <<people, nextId, now>>

\* PersonService.create_person: add, commit; IntegrityError -> rollback, ValueError,
\* which the handler turns into 400
CreateCommitMutNoRollback(c) ==
    /\ req[c].pc = "c_insert"
    /\ LET row == NewRow(nextId, req[c].data, now) IN
       IF UniqueViolation(people, row, 0)
       THEN /\ req' = [req EXCEPT ![c] = CreateFailed(req[c])]
            /\ people' = Append(people, row)
            /\ UNCHANGED nextId
       ELSE /\ nextId <= MaxId
            /\ people' = Append(people, row)
            /\ nextId' = nextId + 1
            /\ req' = [req EXCEPT ![c] = [Goto(req[c], "c_refresh") EXCEPT !.id = row.id]]
    /\ UNCHANGED now

CreateCommit(c) ==
    /\ req[c].pc = "c_insert"
    /\ LET row == NewRow(nextId, req[c].data, now) IN
       IF UniqueViolation(people, row, 0)
       THEN /\ req' = [req EXCEPT ![c] = CreateFailed(req[c])]
            /\ UNCHANGED <<people, nextId>>
       ELSE /\ nextId <= MaxId
            /\ people' = Append(people, row)
            /\ nextId' = nextId + 1
            /\ req' = [req EXCEPT ![c] = [Goto(req[c], "c_refresh") EXCEPT !.id = row.id]]
    /\ UNCHANGED now

\* PersonService.create_person: refresh(db_person), return; the handler answers 201.
\* refresh raises InvalidRequestError when the row is gone: an unhandled error, 500
CreateRefresh(c) ==
    /\ req[c].pc = "c_refresh"
    /\ LET row == get_person_by_id(people, req[c].id) IN
       IF row = <<>>
       THEN req' = [req EXCEPT ![c] = ServerError(req[c], "InvalidRequestError")]
       ELSE req' = [req EXCEPT ![c] = Respond(req[c], 201, "", row)]
    /\ UNCHANGED <<people, nextId, now>>

----------------------------------------------------------------------------
(* PUT /people/{person_id} *)

\* setattr(db_person, field, value) for the dumped fields: the attributes whose
\* value differs from the one the session loaded are the dirty ones, and the
\* flush writes exactly those columns.  The session loads the row once, at the
\* handler's existence check; later queries do not overwrite a loaded object.
ChangedMutAll(loaded, patch) == StrFields
Changed(loaded, patch) ==
    {f \in model_dump_keys(patch) : patch[f] # loaded[f]}

\* the row the UPDATE statement leaves: the changed columns, and onupdate of updated_at
MergedMutTouchCreated(row, patch, cols, ts) ==
    [f \in DOMAIN row |->
        IF f \in cols THEN patch[f]
        ELSE IF f \in {"updated_at", "created_at"} THEN ts
        ELSE row[f]]
MergedMutEarlier(row, patch, cols, ts) ==
    [f \in DOMAIN row |->
        IF f \in cols THEN patch[f]
        ELSE IF f = "updated_at" THEN ts - 1
        ELSE row[f]]
Merged(row, patch, cols, ts) ==
    [f \in DOMAIN row |->
        IF f \in cols THEN patch[f]
        ELSE IF f = "updated_at" THEN ts
        ELSE row[f]]

\* routers.update_person: the existence check, which loads the row into the session
UpdateExists(c, id, patch) ==
    /\ req[c].pc = "idle"
    /\ LET r == Begin("update", "u_login", id, patch)
           row == get_person_by_id(people, id) IN
       IF row = <<>>
       THEN req' = [req EXCEPT ![c] = NotFound(r, "id")]
       ELSE req' = [req EXCEPT ![c] = [r EXCEPT !.dirty = Changed(row[1], patch)]]
    /\ UNCHANGED <<people, nextId, now>>

\* routers.update_person: the login_id pre-check against other records
UpdateCheckLogin(c) ==
    /\ req[c].pc = "u_login"
    /\ LET patch == req[c].data
           other == get_person_by_mayo_login_id(people, patch.login_id) IN
       IF "login_id" \in model_dump_keys(patch) /\ ConflictsWithOther(other, req[c].id)
       THEN req' = [req EXCEPT ![c] = Conflict(req[c], "login_id")]
       ELSE req' = [req EXCEPT ![c] = Goto(req[c], "u_person")]
    /\ UNCHANGED <<people, nextId, now>>

\* routers.update_person: the person_id pre-check against other records
UpdateCheckPerson(c) ==
    /\ req[c].pc = "u_person"
    /\ LET patch == req[c].data
           other == get_person_by_mayo_person_id(people, patch.person_id) IN
       IF "person_id" \in model_dump_keys(patch) /\ ConflictsWithOther(other, req[c].id)
       THEN req' = [req EXCEPT ![c] = Conflict(req[c], "person_id")]
       ELSE req' = [req EXCEPT ![c] = Goto(req[c], "u_lookup")]
    /\ UNCHANGED <<people, nextId, now>>

\* PersonService.update_person: its own lookup.  No row: it returns None, which the
\* handler returns as the response; response_model=Person rejects None: 500.
\* A row: the session already holds the object, whose attributes stay as loaded.
UpdateLookup(c) ==
    /\ req[c].pc = "u_lookup"
    /\ IF get_person_by_id(people, req[c].id) = <<>>
       THEN req' = [req EXCEPT ![c] = ServerError(req[c], "ResponseValidationError")]
       ELSE req' = [req EXCEPT ![c] = Goto(req[c], "u_commit")]
    /\ UNCHANGED <<people, nextId, now>>

\* PersonService.update_person: commit.  Nothing changed: no statement.  The row is
\* gone: StaleDataError, unhandled, 500.  IntegrityError: rollback, ValueError, 400
UpdateCommit(c) ==
    /\ req[c].pc = "u_commit"
    /\ LET patch == req[c].data
           cols == req[c].dirty
           cur == get_person_by_id(people, req[c].id) IN
       IF cols = {}
       THEN /\ req' = [req EXCEPT ![c] = Goto(req[c], "u_refresh")]
            /\ UNCHANGED people
       ELSE IF cur = <<>>
       THEN /\ req' = [req EXCEPT ![c] = ServerError(req[c], "StaleDataError")]
            /\ UNCHANGED people
       ELSE IF UniqueViolation(people, Merged(cur[1], patch, cols, now), req[c].id)
       THEN /\ req' = [req EXCEPT ![c] = UpdateFailed(req[c])]
            /\ UNCHANGED people
       ELSE /\ people' = ReplaceRow(people, Merged(cur[1], patch, cols, now))
            /\ req' = [req EXCEPT ![c] = Goto(req[c], "u_refresh")]
    /\ UNCHANGED <<nextId, now>>

\* PersonService.update_person: refresh(db_person), return; the handler answers 200
UpdateRefresh(c) ==
    /\ req[c].pc = "u_refresh"
    /\ LET row == get_person_by_id(people, req[c].id) IN
       IF row = <<>>
       THEN req' = [req EXCEPT ![c] = ServerError(req[c], "InvalidRequestError")]
       ELSE req' = [req EXCEPT ![c] = Respond(req[c], 200, "", row)]
    /\ UNCHANGED <<people, nextId, now>>

----------------------------------------------------------------------------
(* DELETE /people/{person_id} *)

\* PersonService.delete_person: the lookup; False is answered 404
DeleteLookup(c, id) ==
    /\ req[c].pc = "idle"
    /\ LET r == Begin("delete", "d_commit", id, NoData) IN
       IF get_person_by_id(people, id) = <<>>
       THEN req' = [req EXCEPT ![c] = NotFound(r, "id")]
       ELSE req' = [req EXCEPT ![c] = r]
    /\ UNCHANGED <<people, nextId, now>>

\* PersonService.delete_person: delete, commit, True; the handler answers 204.
\* A DELETE that matches no row is only warned about.
DeleteCommit(c) ==
    /\ req[c].pc = "d_commit"
    /\ people' = DeleteRow(people, req[c].id)
    /\ req' = [req EXCEPT ![c] = Respond(req[c], 204, "", <<>>)]
    /\ UNCHANGED <<nextId, now>>

----------------------------------------------------------------------------
(* GET /people/{person_id}, /people/mayo-login/{login_id}, /people/mayo-person/{person_id} *)

FoundMutOk(r, row, what) == Respond(r, 200, "", row)
Found(r, row, what) ==
    IF row = <<>> THEN NotFound(r, what) ELSE Respond(r, 200, "", row)

get_person(c, id) ==
    /\ req[c].pc = "idle"
    /\ req' = [req EXCEPT ![c] =
                 Found(Begin("get", "g", id, NoData), get_person_by_id(people, id), "id")]
    /\ UNCHANGED <<people, nextId, now>>

get_by_login(c, login) ==
    /\ req[c].pc = "idle"
    /\ req' = [req EXCEPT ![c] =
                 Found(Begin("get_login", "g", 0, [NoData EXCEPT !.login_id = login]),
                       get_person_by_mayo_login_id(people, login), "login_id")]
    /\ UNCHANGED <<people, nextId, now>>

get_by_person(c, pid) ==
    /\ req[c].pc = "idle"
    /\ req' = [req EXCEPT ![c] =
                 Found(Begin("get_person", "g", 0, [NoData EXCEPT !.person_id = pid]),
                       get_person_by_mayo_person_id(people, pid), "person_id")]
    /\ UNCHANGED <<people, nextId, now>>

----------------------------------------------------------------------------
(* Specification: requests in flight together.  The bodies name the         *)
(* identifier fields; the clock stands still.                               *)

CreateInputs ==
    {PersonCreate(l, p, "John", "Q", "Doe") : l \in LoginIds, p \in PersonIds}

Patches ==
    {PersonUpdate(l, None, None, None, None) : l \in LoginIds \cup {None}}
    \cup {PersonUpdate(None, p, None, None, None) : p \in PersonIds}

Step(c) ==
    \/ CreateCheckPerson(c) \/ CreateCommit(c) \/ CreateRefresh(c)
    \/ UpdateCheckLogin(c) \/ UpdateCheckPerson(c) \/ UpdateLookup(c)
    \/ UpdateCommit(c) \/ UpdateRefresh(c)
    \/ DeleteCommit(c)
    \/ Finish(c)

Next ==
    \/ \E c \in Clients :
        \/ \E data \in CreateInputs : CreateCheckLogin(c, data)
        \/ \E id \in Ids, patch \in Patches : UpdateExists(c, id, patch)
        \/ \E id \in Ids : DeleteLookup(c, id)
        \/ Step(c)

Spec == Init /\ [][Next]_vars

----------------------------------------------------------------------------
(* Specification: one request at a time, on all five fields, the clock runs *)

\* a POST body names all three name fields or none of them
SeqCreateInputs ==
    {PersonCreate(l, p, "John", "Q", "Doe") : l \in LoginIds, p \in PersonIds}
    \cup {PersonCreate(l, p, "", "", "") : l \in LoginIds, p \in PersonIds}

AllPatches ==
    {PersonUpdate(l, p, f, m, n) :
        l \in LoginIds \cup {None}, p \in PersonIds \cup {None},
        f \in FirstNames \cup {None}, m \in MiddleNames \cup {None},
        n \in LastNames \cup {None}}

\* a PUT body is empty, names one of login_id, person_id and name_first, names
\* both identifiers, or names name_middle and name_last together
SeqPatches ==
    {patch \in AllPatches :
        LET keys == model_dump_keys(patch) IN
        \/ keys = {}
        \/ \E f \in {"login_id", "person_id", "name_first"} : keys = {f}
        \/ keys = {"login_id", "person_id"}
        \/ keys = {"name_middle", "name_last"} /\ (patch.name_middle = "" <=> patch.name_last = "")}

Client1 == "r1"

NextSeq ==
    \/ Tick
    \/ \E data \in SeqCreateInputs : CreateCheckLogin(Client1, data)
    \/ \E id \in Ids, patch \in SeqPatches : UpdateExists(Client1, id, patch)
    \/ \E id \in Ids : DeleteLookup(Client1, id)
    \/ \E id \in Ids : get_person(Client1, id)
    \/ \E l \in LoginIds : get_by_login(Client1, l)
    \/ \E p \in PersonIds : get_by_person(Client1, p)
    \/ Step(Client1)

SpecSeq == Init /\ [][NextSeq]_vars

----------------------------------------------------------------------------
(* GET /people/ : listing and name search *)

\* the characters of the strings that occur as names and as name queries
Chars(str) ==
    CASE str = "" -> <<>>
      [] str = "Al" -> <<"A", "l">>
      [] str = "Bo" -> <<"B", "o">>
      [] str = "Lo" -> <<"L", "o">>
      [] str = "al" -> <<"a", "l">>
      [] str = "L" -> <<"L">>
      [] str = "o" -> <<"o">>
      [] str = "x" -> <<"x">>
      [] str = "_" -> <<"_">>
      [] str = "%" -> <<"%">>
      [] str = "Q" -> <<"Q">>
      [] str = "John" -> <<"J", "o", "h", "n">>
      [] str = "Doe" -> <<"D", "o", "e">>

\* lower(): the store folds the case of the ASCII letters
lower(ch) ==
    CASE ch = "A" -> "a" [] ch = "B" -> "b" [] ch = "D" -> "d"
      [] ch = "J" -> "j" [] ch = "L" -> "l" [] ch = "Q" -> "q"
      [] OTHER -> ch

\* the store's LIKE: % matches any run of characters, _ any one character,
\* any other character itself (no escape character is given)
RECURSIVE Like(_, _)
Like(pat, txt) ==
    IF pat = <<>> THEN txt = <<>>
    ELSE IF Head(pat) = "%"
         THEN Like(Tail(pat), txt) \/ (txt # <<>> /\ Like(pat, Tail(txt)))
         ELSE /\ txt # <<>>
              /\ (Head(pat) = "_" \/ lower(Head(pat)) = lower(Head(txt)))
              /\ Like(Tail(pat), Tail(txt))

\* column.ilike(f"%{name_query}%"): lower(column) LIKE lower('%' || query || '%')
ilike(col, name_query) ==
    Like(<<"%">> \o Chars(name_query) \o <<"%">>, Chars(col))

\* OFFSET skip LIMIT limit over the rows in the order the store scans them
PageMutNoOffset(rows, skip, limit) ==
    SubSeq(rows, 1, IF limit < Len(rows) THEN limit ELSE Len(rows))
Page(rows, skip, limit) ==
    SubSeq(rows, skip + 1, IF skip + limit < Len(rows) THEN skip + limit ELSE Len(rows))

\* PersonService.get_people
get_people_rows(tbl, skip, limit) == Page(tbl, skip, limit)

\* PersonService.search_people_by_name
search_people_by_name(tbl, name_query, skip, limit) ==
    LET Matches(r) == \/ ilike(r.name_first, name_query)
                      \/ ilike(r.name_middle, name_query)
                      \/ ilike(r.name_last, name_query)
    IN  Page(SelectSeq(tbl, Matches), skip, limit)

\* Query(0, ge=0), Query(100, ge=1, le=1000)
MaxLimit == 1000
ValidPageMutNoUpper(skip, limit) == skip >= 0 /\ limit >= 1
ValidPage(skip, limit) == skip >= 0 /\ limit >= 1 /\ limit <= MaxLimit

\* the service issues a query on the people table
Queried(r) == [r EXCEPT !.lookups = Append(@, "people")]

\* routers.get_people: 422 for invalid parameters; `if name:` chooses the search
get_people(c, skip, limit, name) ==
    /\ req[c].pc = "idle"
    /\ LET r == [Begin("list", "g", 0, NoData) EXCEPT
                    !.skip = skip, !.limit = limit, !.name = name] IN
       req' = [req EXCEPT ![c] =
                 IF ~ValidPage(skip, limit)
                 THEN Respond(r, 422, "query", <<>>)
                 ELSE IF name \notin {None, ""}
                      THEN Respond(Queried(r), 200, "",
                                   search_people_by_name(people, name, skip, limit))
                      ELSE Respond(Queried(r), 200, "",
                                   get_people_rows(people, skip, limit))]
    /\ UNCHANGED <<people, nextId, now>>

\* PersonService.count_people: SELECT count(*) over the table
count_people(tbl) == Len(tbl)

\* routers.get_people_count: {"total_people": count}
get_people_count(c) ==
    /\ req[c].pc = "idle"
    /\ req' = [req EXCEPT ![c] =
                 [Respond(Queried(Begin("count", "g", 0, NoData)), 200, "", <<>>)
                  EXCEPT !.count = count_people(people)]]
    /\ UNCHANGED <<people, nextId, now>>

----------------------------------------------------------------------------
(* PersonService.person_exists_by_mayo_ids *)

\* `if login_id:` / `if person_id:` : neither None nor ""
Truthy(v) == v \notin {None, ""}

\* the first branch returns True
LoginHit(tbl, login) ==
    Truthy(login) /\ get_person_by_mayo_login_id(tbl, login) # <<>>

\* the columns looked up, in the order of the queries
ExistsLookupsMutBoth(tbl, login, pid) ==
    (IF Truthy(login) THEN <<"login_id">> ELSE <<>>)
    \o (IF Truthy(pid) THEN <<"person_id">> ELSE <<>>)
ExistsLookups(tbl, login, pid) ==
    (IF Truthy(login) THEN <<"login_id">> ELSE <<>>)
    \o (IF ~LoginHit(tbl, login) /\ Truthy(pid) THEN <<"person_id">> ELSE <<>>)

\* the value returned
ExistsResult(tbl, login, pid) ==
    \/ LoginHit(tbl, login)
    \/ Truthy(pid) /\ get_person_by_mayo_person_id(tbl, pid) # <<>>

person_exists_by_mayo_ids(c, login, pid) ==
    /\ req[c].pc = "idle"
    /\ req' = [req EXCEPT ![c] =
                 [Idle EXCEPT
                    !.op = "exists", !.pc = "done",
                    !.data = [NoData EXCEPT !.login_id = login, !.person_id = pid],
                    !.lookups = ExistsLookups(people, login, pid),
                    !.result = ExistsResult(people, login, pid)]]
    /\ UNCHANGED <<people, nextId, now>>

----------------------------------------------------------------------------
(* Specification: one request at a time; every endpoint and the reading     *)
(* operations, on names that the name search tells apart; PUT bodies name   *)
(* one identifier                                                           *)

Skips == {-1, 0, 1, 2, 3}
Limits == {0, 1, 2, MaxLimit, MaxLimit + 1}
Queries == {None, "", "al", "L", "o", "x", "_", "%"}

ReadCreateInputs ==
    {PersonCreate(l, p, f, "", n) :
        l \in {"jdoe", "jsmith"}, p \in PersonIds, f \in {"Al", "Bo"}, n \in {"", "Lo"}}

NextRead ==
    \/ \E data \in ReadCreateInputs : CreateCheckLogin(Client1, data)
    \/ \E id \in Ids, patch \in Patches : UpdateExists(Client1, id, patch)
    \/ \E id \in Ids : DeleteLookup(Client1, id)
    \/ \E id \in Ids : get_person(Client1, id)
    \/ \E l \in LoginIds : get_by_login(Client1, l)
    \/ \E p \in PersonIds : get_by_person(Client1, p)
    \/ \E skip \in Skips, limit \in Limits, name \in Queries :
          get_people(Client1, skip, limit, name)
    \/ \E login \in LoginIds \cup {None}, pid \in PersonIds \cup {None} :
          person_exists_by_mayo_ids(Client1, login, pid)
    \/ get_people_count(Client1)
    \/ Step(Client1)

SpecRead == Init /\ [][NextRead]_vars

----------------------------------------------------------------------------
(* Properties *)

\* the request of slot c takes a step
Moves(c) == req'[c] # req[c]

\* the stored row of key id, in a table where it exists
RowOf(tbl, id) == CHOOSE r \in {tbl[i] : i \in 1..Len(tbl)} : r.id = id

Stored(tbl, id) == \E i \in 1..Len(tbl) : tbl[i].id = id

\* some stored row, other than the row of key `self`, holds value v in column f
HeldByOther(tbl, f, v, self) == \E i \in 1..Len(tbl) : tbl[i][f] = v /\ tbl[i].id # self

\* C1: in every reachable state, under any interleaving of create, update and
\* delete requests, no two stored rows hold the same non-empty login_id and no
\* two stored rows hold the same non-empty person_id.
C1_UniqueIdentifiers ==
    \A i, j \in 1..Len(people) :
        i # j =>
            /\ (people[i].login_id # "" => people[i].login_id # people[j].login_id)
            /\ (people[i].person_id # "" => people[i].person_id # people[j].person_id)

\* C1 witness: two rows are stored and a write that passed the pre-checks was
\* rejected by the store for a non-empty login_id that a row holds.
C1_Witness ==
    /\ Len(people) = 2
    /\ \E c \in Clients :
        /\ req[c].pc = "done" /\ req[c].status = 400
        /\ req[c].data.login_id \notin {"", None}
        /\ HeldByOther(people, "login_id", req[c].data.login_id, req[c].id)

\* C2 (as claimed): a POST whose login_id equals the login_id of a stored row is
\* answered 409 naming login_id by the handler's first statement, and the store
\* is left as it was.
C2_DuplicateLoginConflict ==
    [][\A c \in Clients :
        (/\ req[c].pc = "idle" /\ Moves(c) /\ req'[c].op = "create"
         /\ HeldByOther(people, "login_id", req'[c].data.login_id, 0))
        => (/\ req'[c].pc = "done" /\ req'[c].status = 409
            /\ req'[c].detail = "login_id"
            /\ people' = people)]_vars

\* C2 (amended): a POST whose non-empty login_id equals the login_id of a stored
\* row is answered 409 naming login_id, and the store is left as it was: no second
\* row with that login_id, no change to the existing row.
C2_NonEmptyDuplicateLoginConflict ==
    [][\A c \in Clients :
        (/\ req[c].pc = "idle" /\ Moves(c) /\ req'[c].op = "create"
         /\ req'[c].data.login_id # ""
         /\ HeldByOther(people, "login_id", req'[c].data.login_id, 0))
        => (/\ req'[c].pc = "done" /\ req'[c].status = 409
            /\ req'[c].detail = "login_id"
            /\ people' = people)]_vars

\* C2 witness: a create was answered 409 for login_id while exactly one stored
\* row holds that login_id.
C2_Witness ==
    \E c \in Clients :
        /\ req[c].pc = "done" /\ req[c].op = "create"
        /\ req[c].status = 409 /\ req[c].detail = "login_id"
        /\ Cardinality({i \in 1..Len(people) :
                          people[i].login_id = req[c].data.login_id}) = 1

\* C3 (as claimed): empty identifiers are exempt from uniqueness: the insert of a
\* POST whose login_id (or person_id) is empty succeeds although a stored row has
\* an empty login_id (or person_id), as long as no non-empty identifier of the
\* input is held by a stored row.
C3_EmptyIdentifiersExempt ==
    [][\A c \in Clients :
        (/\ req[c].pc = "c_insert" /\ Moves(c)
         /\ \/ req[c].data.login_id = "" /\ HeldByOther(people, "login_id", "", 0)
            \/ req[c].data.person_id = "" /\ HeldByOther(people, "person_id", "", 0)
         /\ \A f \in {"login_id", "person_id"} :
                req[c].data[f] # "" => ~HeldByOther(people, f, req[c].data[f], 0))
        => (/\ req'[c].pc = "c_refresh"
            /\ Len(people') = Len(people) + 1)]_vars

\* C3 witness of the rejection: a POST with an empty login_id was answered 400 by
\* the store while a stored row has an empty login_id.
C3_Rejected ==
    \E c \in Clients :
        /\ req[c].pc = "done" /\ req[c].op = "create" /\ req[c].status = 400
        /\ req[c].data.login_id = "" /\ HeldByOther(people, "login_id", "", 0)

\* two create requests with the same non-empty login_id
SameLogin(c, d) ==
    /\ c # d
    /\ req[c].op = "create" /\ req[d].op = "create"
    /\ req[c].data.login_id # ""
    /\ req[c].data.login_id = req[d].data.login_id

\* C4 (as claimed): when two creates with the same non-empty login_id have both
\* passed the pre-checks, exactly one commits: the first to reach its commit
\* inserts its row, and the other then fails at its commit and is answered 400,
\* not 409.
C4_RaceOneWins ==
    [][\A c, d \in Clients :
        /\ (/\ SameLogin(c, d) /\ Moves(c)
            /\ req[c].pc = "c_insert" /\ req[d].pc = "c_insert")
           => (req'[c].pc = "c_refresh" /\ Len(people') = Len(people) + 1)
        /\ (/\ SameLogin(c, d) /\ Moves(c)
            /\ req[c].pc = "c_insert" /\ req[d].pc = "c_refresh"
            /\ Stored(people, req[d].id)
            /\ RowOf(people, req[d].id).login_id = req[d].data.login_id)
           => (req'[c].pc = "done" /\ req'[c].status = 400 /\ people' = people)]_vars

\* C4 witness of the race: two creates with the same non-empty login_id were
\* both past the pre-checks; one is answered 201 and the other 400.
C4_Witness ==
    \E c, d \in Clients :
        /\ SameLogin(c, d)
        /\ req[c].pc = "done" /\ req[c].status = 201
        /\ req[d].pc = "done" /\ req[d].status = 400

\* C4 without the collisions on empty identifiers: the race ends as claimed when
\* no stored row collides with the racing inputs on person_id.
C4_RaceOneWinsNoEmptyCollision ==
    [][\A c, d \in Clients :
        /\ (/\ SameLogin(c, d) /\ Moves(c)
            /\ req[c].pc = "c_insert" /\ req[d].pc = "c_insert"
            /\ ~HeldByOther(people, "person_id", req[c].data.person_id, 0))
           => (req'[c].pc = "c_refresh" /\ Len(people') = Len(people) + 1)
        /\ (/\ SameLogin(c, d) /\ Moves(c)
            /\ req[c].pc = "c_insert" /\ req[d].pc = "c_refresh"
            /\ Stored(people, req[d].id)
            /\ RowOf(people, req[d].id).login_id = req[d].data.login_id)
           => (req'[c].pc = "done" /\ req'[c].status = 400 /\ people' = people)]_vars

\* the store rejects the write that slot c is about to commit: the row it writes
\* collides with another stored row on login_id or person_id
StoreRejects(c) ==
    \/ /\ req[c].pc = "c_insert"
       /\ \E f \in {"login_id", "person_id"} : HeldByOther(people, f, req[c].data[f], 0)
    \/ /\ req[c].pc = "u_commit"
       /\ Stored(people, req[c].id)
       /\ \E f \in req[c].dirty \cap {"login_id", "person_id"} :
              HeldByOther(people, f, req[c].data[f], req[c].id)

\* C5 (as claimed): every uniqueness violation, also one the store reports at
\* commit time, is answered as a 409 conflict naming login_id or person_id.
C5_EveryViolationIsConflict ==
    [][\A c \in Clients :
        (StoreRejects(c) /\ Moves(c))
        => (req'[c].status = 409 /\ req'[c].detail \in {"login_id", "person_id"})]_vars

\* C5 (amended): a uniqueness violation found by a handler's pre-check is answered
\* 409 naming the field whose value another stored row holds; a violation the
\* store reports at commit time is answered 400 with the service's "creation
\* failed" / "update failed" text.  Neither changes the store.
C5_ConflictFromPreCheckOnly ==
    [][\A c \in Clients :
        /\ (Moves(c) /\ req'[c].status = 409)
           => (/\ req[c].pc \in {"idle", "c_person", "u_login", "u_person"}
               /\ req'[c].detail \in {"login_id", "person_id"}
               /\ HeldByOther(people, req'[c].detail,
                              req'[c].data[req'[c].detail], req'[c].id)
               /\ people' = people)
        /\ (StoreRejects(c) /\ Moves(c))
           => (/\ req'[c].pc = "done" /\ req'[c].status = 400
               /\ req'[c].detail =
                    (IF req[c].op = "create" THEN "Person creation failed"
                     ELSE "Person update failed")
               /\ people' = people)]_vars

\* C5 witness: one request was answered 409 by a pre-check and another was
\* answered 400 after the store rejected its commit.
C5_Witness ==
    \E c, d \in Clients :
        /\ req[c].pc = "done" /\ req[c].status = 409
        /\ req[d].pc = "done" /\ req[d].status = 400
        /\ req[d].data.login_id \notin {"", None}
        /\ HeldByOther(people, "login_id", req[d].data.login_id, req[d].id)

\* C6: after a create answered 201 whose login_id and person_id are non-empty,
\* and before any other write, the lookups by the returned id, by that login_id
\* and by that person_id all return the one stored row that was returned, and its
\* five string fields are those of the input.
C6_CreateThenFetch ==
    \A c \in Clients :
        (/\ req[c].pc = "done" /\ req[c].op = "create" /\ req[c].status = 201
         /\ req[c].data.login_id # "" /\ req[c].data.person_id # "")
        => (/\ Len(req[c].body) = 1
            /\ get_person_by_id(people, req[c].body[1].id) = req[c].body
            /\ get_person_by_mayo_login_id(people, req[c].data.login_id) = req[c].body
            /\ get_person_by_mayo_person_id(people, req[c].data.person_id) = req[c].body
            /\ \A f \in StrFields : req[c].body[1][f] = req[c].data[f])

\* C6 witness: a create with both identifiers non-empty was answered 201 while
\* another row is stored.
C6_Witness ==
    \E c \in Clients :
        /\ req[c].pc = "done" /\ req[c].op = "create" /\ req[c].status = 201
        /\ req[c].data.login_id # "" /\ req[c].data.person_id # ""
        /\ Len(people) = 2

\* slot c commits an update: the step of PersonService.update_person that ends in
\* the refresh
CommitsUpdate(c) ==
    /\ req[c].pc = "u_commit" /\ req'[c].pc = "u_refresh"
    /\ Stored(people, req[c].id) /\ Stored(people', req[c].id)

\* C7: a successful update sets every field that is present in the patch to the
\* patch's value and leaves every other field of the stored row as it was (the
\* absent string fields, id and created_at); updated_at does not decrease.  So
\* a patch of name_first alone leaves login_id, person_id, name_middle and
\* name_last unchanged.
C7_UpdateFrame ==
    [][\A c \in Clients :
        CommitsUpdate(c) =>
            LET old == RowOf(people, req[c].id)
                new == RowOf(people', req[c].id)
                patch == req[c].data
            IN  /\ \A f \in StrFields :
                      new[f] = (IF patch[f] # None THEN patch[f] ELSE old[f])
                /\ new.id = old.id /\ new.created_at = old.created_at
                /\ new.updated_at >= old.updated_at
                /\ Len(people') = Len(people)]_vars

\* C7 witness: a patch of name_first alone was applied at a later time than the
\* row was created, and is answered 200 with the other fields still set.
C7_Witness ==
    \E c \in Clients :
        /\ req[c].pc = "done" /\ req[c].op = "update" /\ req[c].status = 200
        /\ model_dump_keys(req[c].data) = {"name_first"}
        /\ req[c].body[1].name_first = req[c].data.name_first
        /\ req[c].body[1].updated_at > req[c].body[1].created_at
        /\ req[c].body[1].login_id # "" /\ req[c].body[1].name_middle = "Q"

\* C8: in a patch, a field that is present with the value "" sets the stored
\* field to "", and a field that is absent (None) leaves the stored field as it
\* was: "" is a value, not absence.
C8_AbsentIsNotEmpty ==
    [][\A c \in Clients :
        CommitsUpdate(c) =>
            \A f \in StrFields :
                /\ req[c].data[f] = "" => RowOf(people', req[c].id)[f] = ""
                /\ req[c].data[f] = None =>
                       RowOf(people', req[c].id)[f] = RowOf(people, req[c].id)[f]]_vars

\* C8 witness: an update whose patch sets name_first to "" and does not name
\* name_middle was answered 200 with name_first "" and name_middle still "Q".
C8_Witness ==
    \E c \in Clients :
        /\ req[c].pc = "done" /\ req[c].op = "update" /\ req[c].status = 200
        /\ req[c].data.name_first = "" /\ req[c].data.name_middle = None
        /\ req[c].body[1].name_first = "" /\ req[c].body[1].name_middle = "Q"
        /\ req[c].body[1].updated_at > req[c].body[1].created_at

\* C9: an update of an id that no stored row has is not found: the PUT handler
\* answers 404 from its existence check, and the service's own lookup returns
\* None; in both cases the request ends there, no commit is attempted and the
\* store is left exactly as it was.
C9_UpdateNotFound ==
    [][\A c \in Clients :
        /\ (/\ req[c].pc = "idle" /\ Moves(c) /\ req'[c].op = "update"
            /\ ~Stored(people, req'[c].id))
           => (/\ req'[c].pc = "done" /\ req'[c].status = 404
               /\ req'[c].body = <<>> /\ people' = people)
        /\ (/\ req[c].pc = "u_lookup" /\ Moves(c)
            /\ ~Stored(people, req[c].id))
           => (/\ req'[c].pc = "done" /\ req'[c].body = <<>>
               /\ people' = people)]_vars

\* C9 witness: a PUT for an id that is not stored was answered 404 while other
\* rows are stored.
C9_Witness ==
    \E c \in Clients :
        /\ req[c].pc = "done" /\ req[c].op = "update" /\ req[c].status = 404
        /\ people # <<>> /\ ~Stored(people, req[c].id)

\* the identifier f of the patch of slot c is absent or is the stored value of
\* the target row itself
OwnOrAbsent(c, f) ==
    \/ req[c].data[f] = None
    \/ Stored(people, req[c].id) /\ RowOf(people, req[c].id)[f] = req[c].data[f]

\* C10: a PUT on a stored id whose patch carries a login_id (person_id) that a
\* row of another id holds is answered 409 naming that field, and no row changes;
\* a 409 is answered only for such a field, so never for a patch that carries the
\* target's own login_id or person_id or neither identifier; and a patch whose
\* identifiers are the target's own or absent is committed and answered 200.
C10_UpdateConflicts ==
    [][\A c \in Clients :
        /\ \A f \in {"login_id", "person_id"} :
            (/\ req[c].pc = (IF f = "login_id" THEN "u_login" ELSE "u_person")
             /\ Moves(c)
             /\ req[c].data[f] # None
             /\ HeldByOther(people, f, req[c].data[f], req[c].id))
            => (/\ req'[c].pc = "done" /\ req'[c].status = 409
                /\ req'[c].detail = f /\ people' = people)
        /\ (Moves(c) /\ req'[c].op = "update" /\ req'[c].status = 409)
           => (/\ req'[c].detail \in {"login_id", "person_id"}
               /\ req'[c].data[req'[c].detail] # None
               /\ HeldByOther(people, req'[c].detail,
                              req'[c].data[req'[c].detail], req'[c].id))
        /\ (/\ req[c].op = "update" /\ Moves(c)
            /\ req[c].pc \in {"u_login", "u_person", "u_lookup", "u_commit", "u_refresh"}
            /\ OwnOrAbsent(c, "login_id") /\ OwnOrAbsent(c, "person_id"))
           => (/\ req'[c].status \in {0, 200}
               /\ req[c].pc = "u_refresh" => req'[c].status = 200)]_vars

\* C10 witness: an update whose patch carries the target's own login_id has
\* passed the login_id pre-check while another row is stored.
C10_Witness ==
    \E c \in Clients :
        /\ req[c].pc = "u_person" /\ req[c].data.login_id # None
        /\ Stored(people, req[c].id)
        /\ RowOf(people, req[c].id).login_id = req[c].data.login_id
        /\ Len(people) = 2

\* C11 (as claimed): the update pre-checks answer a conflict only for a present
\* identifier that is non-empty and held by a row of another id, as the create
\* pre-checks do; a patch that sets login_id or person_id to "" is never
\* answered 409.
C11_UpdatePreCheckSkipsEmpty ==
    [][\A c \in Clients :
        (/\ Moves(c) /\ req[c].op = "update"
         /\ req[c].pc \in {"u_login", "u_person"}
         /\ req'[c].status = 409)
        => (/\ req'[c].detail \in {"login_id", "person_id"}
            /\ req[c].data[req'[c].detail] \notin {None, ""}
            /\ HeldByOther(people, req'[c].detail,
                           req[c].data[req'[c].detail], req[c].id))]_vars

\* C11 witness: a PUT whose patch sets login_id to "" was answered 409 naming
\* login_id, the empty login_id being held by a row of another id.
C11_EmptyRejected ==
    \E c \in Clients :
        /\ req[c].pc = "done" /\ req[c].op = "update" /\ req[c].status = 409
        /\ req[c].detail = "login_id" /\ req[c].data.login_id = ""
        /\ Stored(people, req[c].id)
        /\ HeldByOther(people, "login_id", "", req[c].id)

\* C12: delete_person on an id that is stored returns True (204) and removes
\* that row and no other; called again on the same id, which is then not stored
\* (ids are not issued twice), it returns False (404) and changes nothing.
C12_DeleteIdempotent ==
    [][\A c \in Clients :
        /\ (/\ req[c].pc = "idle" /\ Moves(c) /\ req'[c].op = "delete"
            /\ Stored(people, req'[c].id))
           => (req'[c].pc = "d_commit" /\ req'[c].status = 0 /\ people' = people)
        /\ (req[c].pc = "d_commit" /\ Moves(c) /\ Stored(people, req[c].id))
           => (/\ req'[c].pc = "done" /\ req'[c].status = 204
               /\ ~Stored(people', req[c].id)
               /\ Len(people') = Len(people) - 1
               /\ \A id \in Ids \ {req[c].id} :
                     Stored(people, id) =>
                         Stored(people', id) /\ RowOf(people', id) = RowOf(people, id))
        /\ (/\ req[c].pc = "idle" /\ Moves(c) /\ req'[c].op = "delete"
            /\ ~Stored(people, req'[c].id))
           => (/\ req'[c].pc = "done" /\ req'[c].status = 404
               /\ people' = people)
        /\ (/\ req[c].pc = "done" /\ req[c].op = "delete" /\ req[c].status = 204)
           => (~Stored(people, req[c].id) /\ ~Stored(people', req[c].id))]_vars

\* C12 witness: a delete of an id that was issued and deleted before is answered
\* 404 while another row is stored.
C12_Witness ==
    \E c \in Clients :
        /\ req[c].pc = "done" /\ req[c].op = "delete" /\ req[c].status = 404
        /\ req[c].id < nextId /\ ~Stored(people, req[c].id)
        /\ people # <<>>

\* C13 (as claimed): a delete returns True (204) exactly when it removed a row:
\* a delete whose commit finds its row already removed by another request
\* returns False (404), so of the deletes of one id that are in flight together
\* at most one is answered 204.
C13_OnlyOneDeleteSucceeds ==
    [][\A c \in Clients :
        (req[c].pc = "d_commit" /\ Moves(c))
        => /\ req'[c].status = 204 <=>
                  (Stored(people, req[c].id) /\ ~Stored(people', req[c].id))
           /\ ~Stored(people, req[c].id) => req'[c].status = 404]_vars

\* C13 witness: two deletes of the same id, in flight together, are both
\* answered 204.
C13_BothDeleted ==
    \E c, d \in Clients :
        /\ c # d
        /\ req[c].pc = "done" /\ req[c].op = "delete" /\ req[c].status = 204
        /\ req[d].pc = "done" /\ req[d].op = "delete" /\ req[d].status = 204
        /\ req[c].id = req[d].id

\* C14: the DELETE handler answers 204 when delete_person returns True (its
\* lookup found the row) and 404 when it returns False; after a 204 for an id
\* that id is not stored and never stored again, and every GET /people/{id} of
\* an id that is not stored answers 404.
C14_DeleteThenGone ==
    [][\A c \in Clients :
        /\ (req[c].pc = "idle" /\ Moves(c) /\ req'[c].op = "delete")
           => IF get_person_by_id(people, req'[c].id) = <<>>
              THEN req'[c].pc = "done" /\ req'[c].status = 404
              ELSE req'[c].pc = "d_commit"
        /\ (req[c].pc = "d_commit" /\ Moves(c))
           => (req'[c].pc = "done" /\ req'[c].status = 204
               /\ ~Stored(people', req[c].id))
        /\ \A id \in Ids :
              (id < nextId /\ ~Stored(people, id)) => ~Stored(people', id)
        /\ (/\ req[c].pc = "idle" /\ Moves(c) /\ req'[c].op = "get"
            /\ ~Stored(people, req'[c].id))
           => (req'[c].pc = "done" /\ req'[c].status = 404 /\ req'[c].body = <<>>)]_vars

\* C14 witness: a GET of an id that was issued and deleted is answered 404
\* while another row is stored.
C14_Witness ==
    \E c \in Clients :
        /\ req[c].pc = "done" /\ req[c].op = "get" /\ req[c].status = 404
        /\ req[c].id < nextId /\ ~Stored(people, req[c].id)
        /\ people # <<>>

Min(a, b) == IF a < b THEN a ELSE b
Max(a, b) == IF a > b THEN a ELSE b

\* C15: a plain listing with parameters skip and limit returns the stored rows
\* in insertion order (the order of the ids issued), starting at position skip:
\* min(limit, max(0, n - skip)) rows for a store of n rows, so none when
\* skip >= n.
C15_ListPage ==
    \A c \in Clients :
        (/\ req[c].pc = "done" /\ req[c].op = "list" /\ req[c].status = 200
         /\ req[c].name \in {None, ""})
        => LET n == Len(people)
               k == Min(req[c].limit, Max(0, n - req[c].skip))
           IN  /\ Len(req[c].body) = k
               /\ \A i \in 1..k : req[c].body[i] = people[req[c].skip + i]
               /\ \A i, j \in 1..k : i < j => req[c].body[i].id < req[c].body[j].id
               /\ req[c].skip >= n => req[c].body = <<>>

\* C15 witness: a listing with skip 1 of a store of two rows returned the second
\* row alone.
C15_Witness ==
    \E c \in Clients :
        /\ req[c].pc = "done" /\ req[c].op = "list" /\ req[c].status = 200
        /\ req[c].name = None /\ req[c].skip = 1
        /\ Len(people) = 2 /\ req[c].body = <<people[2]>>

\* query is a substring of txt, the case of letters set aside
IsSubstring(query, txt) ==
    \E i \in 0..(Len(txt) - Len(query)) :
        \A j \in 1..Len(query) : lower(query[j]) = lower(txt[i + j])

\* the query is a case-insensitive substring of one of the three names of row r
NameContains(r, query) ==
    \/ IsSubstring(Chars(query), Chars(r.name_first))
    \/ IsSubstring(Chars(query), Chars(r.name_middle))
    \/ IsSubstring(Chars(query), Chars(r.name_last))

\* C16 (as claimed): whenever the name parameter is present, the list handler
\* returns the page (skip, limit) of exactly the stored rows of which the query
\* is a case-insensitive substring of name_first, name_middle or name_last: only
\* such rows, and before pagination every such row.
C16_SearchIsSubstring ==
    \A c \in Clients :
        (/\ req[c].pc = "done" /\ req[c].op = "list" /\ req[c].status = 200
         /\ req[c].name # None)
        => LET Hit(r) == NameContains(r, req[c].name) IN
           req[c].body = Page(SelectSeq(people, Hit), req[c].skip, req[c].limit)

\* C16 witness: a search for "_" returned a row none of whose names contains "_".
C16_WildcardMatch ==
    \E c \in Clients :
        /\ req[c].pc = "done" /\ req[c].op = "list" /\ req[c].status = 200
        /\ req[c].name = "_" /\ req[c].body # <<>>
        /\ ~NameContains(req[c].body[1], "_")

\* C16 for queries without the LIKE wildcards % and _: the search returns the
\* page of exactly the rows of which the query is a case-insensitive substring.
C16_SearchIsSubstringNoWildcard ==
    \A c \in Clients :
        (/\ req[c].pc = "done" /\ req[c].op = "list" /\ req[c].status = 200
         /\ req[c].name \notin {None, "_", "%"})
        => LET Hit(r) == NameContains(r, req[c].name) IN
           req[c].body = Page(SelectSeq(people, Hit), req[c].skip, req[c].limit)

\* C17: person_exists_by_mayo_ids looks login_id up first; when a non-empty
\* login_id matches a row it returns True and the person_id lookup is not
\* issued; the person_id lookup is issued only when login_id is absent, empty
\* or unmatched; with neither identifier given it returns False and issues no
\* lookup.  It returns True exactly when a given non-empty identifier is held.
C17_ExistsShortCircuit ==
    \A c \in Clients :
        (req[c].pc = "done" /\ req[c].op = "exists")
        => LET l == req[c].data.login_id
               p == req[c].data.person_id
               matchL == l \notin {None, ""} /\ \E i \in 1..Len(people) : people[i].login_id = l
               matchP == p \notin {None, ""} /\ \E i \in 1..Len(people) : people[i].person_id = p
           IN  /\ req[c].lookups \in {<<>>, <<"login_id">>, <<"person_id">>,
                                      <<"login_id", "person_id">>}
               /\ matchL => (req[c].result /\ req[c].lookups = <<"login_id">>)
               /\ (\E i \in 1..Len(req[c].lookups) : req[c].lookups[i] = "person_id")
                      => (l \in {None, ""} \/ ~matchL)
               /\ (l \in {None, ""} /\ p \in {None, ""})
                      => (~req[c].result /\ req[c].lookups = <<>>)
               /\ req[c].result <=> (matchL \/ matchP)

\* C17 witness: called with a login_id that a row holds and a person_id that
\* another row holds, it returned True after the login_id lookup alone.
C17_Witness ==
    \E c \in Clients :
        /\ req[c].pc = "done" /\ req[c].op = "exists"
        /\ req[c].result /\ req[c].lookups = <<"login_id">>
        /\ req[c].data.person_id = "12345"
        /\ \E i \in 1..Len(people) : people[i].person_id = "12345"

\* C18: when the store rejects the INSERT of create_person because the new
\* row's login_id or person_id is held by a stored row, the service rolls back
\* and raises "Person creation failed", the store holds no row from the attempt
\* (it is left as it was) and the POST handler answers 400 with that text.
C18_CreateRejected ==
    [][\A c \in Clients :
        (/\ req[c].pc = "c_insert" /\ Moves(c)
         /\ \/ HeldByOther(people, "login_id", req[c].data.login_id, 0)
            \/ HeldByOther(people, "person_id", req[c].data.person_id, 0))
        => (/\ req'[c].pc = "done" /\ req'[c].status = 400
            /\ req'[c].detail = "Person creation failed"
            /\ req'[c].rolled_back /\ req'[c].body = <<>>
            /\ people' = people)]_vars

\* C18 witness: a create that lost the race on its non-empty login_id was
\* answered 400 after the rollback; the winner's row is stored.
C18_Witness ==
    \E c \in Clients :
        /\ req[c].pc = "done" /\ req[c].op = "create" /\ req[c].status = 400
        /\ req[c].rolled_back /\ req[c].data.login_id # ""
        /\ HeldByOther(people, "login_id", req[c].data.login_id, 0)

\* C19: when the store rejects the UPDATE of update_person because an
\* identifier it writes is held by a row of another id, the service rolls back
\* and raises "Person update failed", every stored row keeps its values and the
\* PUT handler answers 400.
C19_UpdateRejected ==
    [][\A c \in Clients :
        (/\ req[c].pc = "u_commit" /\ Moves(c) /\ Stored(people, req[c].id)
         /\ \E f \in req[c].dirty \cap {"login_id", "person_id"} :
               HeldByOther(people, f, req[c].data[f], req[c].id))
        => (/\ req'[c].pc = "done" /\ req'[c].status = 400
            /\ req'[c].detail = "Person update failed"
            /\ req'[c].rolled_back /\ req'[c].body = <<>>
            /\ people' = people)]_vars

\* C19 witness: an update that lost the race on a non-empty login_id was
\* answered 400 after the rollback; its target row does not hold that login_id.
C19_Witness ==
    \E c \in Clients :
        /\ req[c].pc = "done" /\ req[c].op = "update" /\ req[c].status = 400
        /\ req[c].rolled_back /\ req[c].data.login_id \notin {None, ""}
        /\ Stored(people, req[c].id)
        /\ RowOf(people, req[c].id).login_id # req[c].data.login_id
        /\ HeldByOther(people, "login_id", req[c].data.login_id, req[c].id)

\* C20: the session that get_db_session opens for a request is open while the
\* handler runs and is closed exactly once when the request ends, whether the
\* handler returned (2xx), raised an HTTPException (4xx) or let an exception
\* escape (500); no request that has ended holds an open session.
C20_SessionClosedOnce ==
    \A c \in Clients :
        /\ req[c].pc = "idle" => (req[c].session = "none" /\ req[c].closes = 0)
        /\ req[c].pc \notin {"idle", "done"} =>
               (req[c].session = "open" /\ req[c].closes = 0)
        /\ (req[c].pc = "done" /\ req[c].status # 0) =>
               (req[c].session = "closed" /\ req[c].closes = 1)

\* C20 witness: a request that ended with an escaped exception (500) has its
\* session closed once, while the other request is still running on an open one.
C20_Witness ==
    \E c, d \in Clients :
        /\ req[c].pc = "done" /\ req[c].status = 500
        /\ req[c].session = "closed" /\ req[c].closes = 1
        /\ req[d].pc \notin {"idle", "done"} /\ req[d].session = "open"

\* C21: a list request with skip < 0, limit < 1 or limit > 1000 is answered 422
\* with no query issued on the store and the store left as it was; a list
\* request within the ranges is not answered 422.
C21_ListValidation ==
    [][\A c \in Clients :
        (req[c].pc = "idle" /\ Moves(c) /\ req'[c].op = "list")
        => IF req'[c].skip < 0 \/ req'[c].limit < 1 \/ req'[c].limit > 1000
           THEN /\ req'[c].pc = "done" /\ req'[c].status = 422
                /\ req'[c].lookups = <<>> /\ req'[c].body = <<>>
                /\ people' = people
           ELSE req'[c].status = 200 /\ req'[c].lookups = <<"people">>]_vars

\* C21 witness: a list request with limit 1001 was answered 422 while rows are
\* stored.
C21_Witness ==
    \E c \in Clients :
        /\ req[c].pc = "done" /\ req[c].op = "list" /\ req[c].status = 422
        /\ req[c].limit = 1001 /\ req[c].skip = 0 /\ req[c].lookups = <<>>
        /\ people # <<>>

\* C22: in every reachable state every stored row has updated_at >= created_at.
C22_UpdatedNotBeforeCreated ==
    \A i \in 1..Len(people) : people[i].updated_at >= people[i].created_at

\* C22 witness: two rows are stored, one as it was created and one updated at a
\* later time than it was created.
C22_Witness ==
    /\ Len(people) = 2
    /\ \E i, j \in 1..2 :
          /\ people[i].updated_at > people[i].created_at
          /\ people[j].updated_at = people[j].created_at

\* C23: every stored row has an id (not null: one of the keys issued), no two
\* stored rows have the same id, and an id that was issued and whose row was
\* deleted is never the id of a row again.
C23_IdsNeverReused ==
    [][/\ \A i \in 1..Len(people') :
             people'[i].id >= 1 /\ people'[i].id < nextId'
       /\ \A i, j \in 1..Len(people') :
             i # j => people'[i].id # people'[j].id
       /\ \A id \in Ids :
             (id < nextId /\ ~Stored(people, id)) => ~Stored(people', id)
       /\ \A id \in Ids :
             (~Stored(people, id) /\ Stored(people', id)) => id >= nextId]_vars

\* C23 witness: a create was answered 201 with a new id after the row of the
\* id issued first had been deleted.
C23_Witness ==
    \E c \in Clients :
        /\ req[c].pc = "done" /\ req[c].op = "create" /\ req[c].status = 201
        /\ req[c].body[1].id = 2 /\ Stored(people, 2) /\ ~Stored(people, 1)

\* C24: no step of an update request, whether the request ends in 200 or fails,
\* changes the id or the created_at of any stored row or adds or removes a row;
\* and in no step at all does a row that stays stored change its created_at.
C24_UpdateKeepsIdAndCreatedAt ==
    [][/\ \A c \in Clients :
             (Moves(c) /\ (req[c].op = "update" \/ req'[c].op = "update"))
             => /\ Len(people') = Len(people)
                /\ \A i \in 1..Len(people) :
                      /\ people'[i].id = people[i].id
                      /\ people'[i].created_at = people[i].created_at
       /\ \A id \in Ids :
             (Stored(people, id) /\ Stored(people', id))
             => RowOf(people', id).created_at = RowOf(people, id).created_at]_vars

\* C24 witness: an update that changed login_id at a later time than the row was
\* created was answered 200 with the id and the created_at of the creation.
C24_Witness ==
    \E c \in Clients :
        /\ req[c].pc = "done" /\ req[c].op = "update" /\ req[c].status = 200
        /\ model_dump_keys(req[c].data) = {"login_id"}
        /\ req[c].body[1].login_id = req[c].data.login_id
        /\ req[c].body[1].id = req[c].id
        /\ req[c].body[1].created_at = 0 /\ req[c].body[1].updated_at = 1

\* the rows that count towards the answered requests: the stored rows less the
\* rows inserted by creates that are not answered yet
Settled(tbl, r) == Len(tbl) - Cardinality({c \in Clients : r[c].pc = "c_refresh"})

\* the requests of operation op that are answered with status in this step
Answered(op, status) ==
    Cardinality({c \in Clients :
        /\ req[c].pc # "done" /\ req'[c].pc = "done"
        /\ req'[c].op = op /\ req'[c].status = status})

\* C25 (as claimed): count_people returns the number of stored rows, and that
\* number is the number of creates answered 201 less the number of deletes
\* answered 204: step by step, the stored rows (less the rows of creates not
\* answered yet) grow by one with each create answered 201, shrink by one with
\* each delete answered 204, and change in no other step.
C25_CountIsCreatesLessDeletes ==
    [][/\ \A c \in Clients :
             (Moves(c) /\ req'[c].op = "count" /\ req'[c].pc = "done")
             => req'[c].count = Len(people)
       /\ Settled(people', req') - Settled(people, req)
              = Answered("create", 201) - Answered("delete", 204)]_vars

\* C25 witness: one row was ever created and two deletes of its id, in flight
\* together, are both answered 204: no row is stored, one create less two
\* deletes were answered.
C25_TwoDeletesOneRow ==
    \E c, d \in Clients :
        /\ c # d /\ nextId = 2 /\ people = <<>>
        /\ req[c].pc = "done" /\ req[c].op = "delete" /\ req[c].status = 204
        /\ req[d].pc = "done" /\ req[d].op = "delete" /\ req[d].status = 204

\* the identifier f of the create input of request r is non-empty and held by a
\* stored row
InputHeld(tbl, r, f) == r.data[f] # "" /\ HeldByOther(tbl, f, r.data[f], 0)

\* C26: the create handler checks login_id before person_id: an input whose
\* non-empty login_id is held is answered 409 naming login_id, also when its
\* non-empty person_id is held too (by the same row or by another); 409 naming
\* person_id is answered only when the login_id is empty or not held; and the
\* insert is attempted only when neither pre-check fires.
C26_LoginCheckedFirst ==
    [][\A c \in Clients :
        /\ (/\ req[c].pc = "idle" /\ Moves(c) /\ req'[c].op = "create"
            /\ InputHeld(people, req'[c], "login_id"))
           => (/\ req'[c].pc = "done" /\ req'[c].status = 409
               /\ req'[c].detail = "login_id")
        /\ (/\ Moves(c) /\ req'[c].op = "create" /\ req'[c].status = 409
            /\ req'[c].detail = "person_id")
           => (/\ ~InputHeld(people, req'[c], "login_id")
               /\ InputHeld(people, req'[c], "person_id"))
        /\ (Moves(c) /\ req'[c].op = "create" /\ req'[c].pc = "c_insert")
           => (/\ ~InputHeld(people, req'[c], "login_id")
               /\ ~InputHeld(people, req'[c], "person_id"))
        /\ (Moves(c) /\ req[c].pc = "c_insert")
           => (/\ ~InputHeld(people, req[c], "login_id")
               /\ ~InputHeld(people, req[c], "person_id"))]_vars

\* C26 witness: a create whose login_id is held by one row and whose person_id
\* is held by another row was answered 409 naming login_id.
C26_Witness ==
    \E c \in Clients :
        /\ req[c].pc = "done" /\ req[c].op = "create" /\ req[c].status = 409
        /\ req[c].detail = "login_id"
        /\ \E i, j \in 1..Len(people) :
              /\ i # j
              /\ people[i].login_id = req[c].data.login_id
              /\ people[j].person_id = req[c].data.person_id
              /\ req[c].data.person_id # ""

\* C27 (as claimed): under any interleaving a PUT ends with 200 and the updated
\* record, or with 404, 409 or 400; when the row is deleted by another request
\* after the handler's existence check and before the service's own lookup, the
\* PUT answers 404.
C27_PutOutcomes ==
    [][\A c \in Clients :
        (Moves(c) /\ req'[c].op = "update" /\ req'[c].pc = "done")
        => /\ req'[c].status \in {200, 404, 409, 400}
           /\ req'[c].status = 200 =>
                  (Len(req'[c].body) = 1 /\ req'[c].body[1].id = req'[c].id)
           /\ (req[c].pc = "u_lookup" /\ ~Stored(people, req[c].id)) =>
                  req'[c].status = 404]_vars

\* C27 witness: a PUT whose row was deleted by the other request, answered 204,
\* after the existence check ended with 500: the service returned None and the
\* response validation rejected it.
C27_NoneIsServerError ==
    \E c, d \in Clients :
        /\ req[c].pc = "done" /\ req[c].op = "update" /\ req[c].status = 500
        /\ req[c].detail = "ResponseValidationError"
        /\ req[d].pc = "done" /\ req[d].op = "delete" /\ req[d].status = 204
        /\ req[d].id = req[c].id

\* requests c and d are PUTs on different ids whose patches set identifier f to
\* the same non-empty value
SameNewValue(c, d, f) ==
    /\ c # d
    /\ req[c].op = "update" /\ req[d].op = "update"
    /\ req[c].id # req[d].id
    /\ req[c].data[f] \notin {None, ""}
    /\ req[c].data[f] = req[d].data[f]

ReadOps == {"get", "get_login", "get_person", "list", "count", "exists"}

\* the positions of a request whose write has been committed
Committed == {"c_refresh", "u_refresh"}

\* C29: a step of a request that answers 404, 409, 400 or 422 leaves every row
\* as it was, and that request had committed nothing before; every step of a
\* reading request (by id, by login_id, by person_id, list, search, count, and
\* the service's existence test) leaves every row as it was; the rows change
\* only in the committing step of a POST, PUT or DELETE that is not rejected.
C29_RejectedAndReadsKeepStore ==
    [][\A c \in Clients : Moves(c) =>
        /\ (req'[c].pc = "done" /\ req'[c].status \in {404, 409, 400, 422})
           => (people' = people /\ req[c].pc \notin Committed)
        /\ (req'[c].op \in ReadOps) => people' = people
        /\ (people' # people)
           => \/ req'[c].pc \in Committed
              \/ (req'[c].op = "delete" /\ req'[c].pc = "done" /\ req'[c].status = 204)]_vars

\* C29 witness: with one row stored, a POST has been answered 400 by the store
C29_Witness ==
    \E c \in Clients :
        /\ Len(people) = 1
        /\ req[c].pc = "done" /\ req[c].op = "create" /\ req[c].status = 400

\* the rows of tbl other than the row of key id, in table order
Others(tbl, id) == LET Other(r) == r.id # id IN SelectSeq(tbl, Other)

\* C30: the committing step of a POST appends one row, of a key no row had,
\* and keeps every row that was stored; the committing step of a PUT keeps the
\* keys and changes no row but the one of the given id; the committing step of
\* a DELETE removes no row but the one of the given id.
C30_WritesTouchOwnRecord ==
    [][\A c \in Clients : Moves(c) =>
        /\ (req[c].pc = "c_insert" /\ req'[c].pc = "c_refresh")
           => /\ Len(people') = Len(people) + 1
              /\ SubSeq(people', 1, Len(people)) = people
              /\ people'[Len(people')].id = req'[c].id
              /\ ~Stored(people, req'[c].id)
        /\ (req[c].pc = "u_commit" /\ req'[c].pc = "u_refresh")
           => /\ Len(people') = Len(people)
              /\ \A i \in 1..Len(people) :
                    /\ people'[i].id = people[i].id
                    /\ people[i].id # req[c].id => people'[i] = people[i]
        /\ (req[c].pc = "d_commit" /\ req'[c].pc = "done" /\ req'[c].status = 204)
           => /\ people' = Others(people, req[c].id)
              /\ Others(people', req[c].id) = Others(people, req[c].id)]_vars

\* C30 witness: a PUT that changed its row has been answered 200 while another
\* row is stored
C30_Witness ==
    \E c \in Clients :
        /\ req[c].pc = "done" /\ req[c].op = "update" /\ req[c].status = 200
        /\ req[c].dirty # {}
        /\ Len(people) = 2

====
